---- MODULE Spec2Model ----
(***************************************************************************)
(* Model of src/formatters/base.ts (coc-pyright): the patch parser         *)
(* patch_fromText, the edit synthesizer getTextEditsInternal, the bridge   *)
(* getTextEditsFromPatch and the request driver                            *)
(* BaseFormatter.provideDocumentFormattingEdits.                           *)
(*                                                                         *)
(* Strings are sequences of one-character strings, so that indexOf,        *)
(* split, substring and the character walk are computed, not assumed.      *)
(***************************************************************************)
EXTENDS Integers, Sequences, FiniteSets, TLC

VARIABLES
    \* ---- getTextEditsInternal (and the loop of getTextEditsFromPatch that calls it)
    mode,       \* "direct": getTextEditsInternal called as is; "patch": through lines 478-483
    before,     \* the original document text
    diffs,      \* the primitives: sequence of [op, text]
    startLine,  \* the startLine argument (p.start1)
    spc,        \* position in the function
    i,          \* loop index, 1-based (the code's i + 1)
    line,       \* cursor
    character,  \* cursor
    edit,       \* the edit in progress, or NoEdit
    edits,      \* the edits pushed so far
    \* ---- patch_fromText
    textline,   \* the argument
    text,       \* the lines after the split
    textPointer,\* 1-based (the code's textPointer + 1)
    patches,    \* the patches pushed so far
    ppc,        \* position in the function
    \* ---- BaseFormatter.provideDocumentFormattingEdits
    req,        \* the request: a record, see FormatInit
    \* ---- getTextEditsFromPatch
    bridge,     \* one call: a record, see BridgeInit
    \* ---- two requests at once and the directory they write to
    files,      \* temporary file name -> the request that wrote it, or Absent
    reqs        \* request -> a record, see SharedInit

synthVars == <<mode, before, diffs, startLine, spc, i, line, character, edit, edits>>
parseVars == <<textline, text, textPointer, patches, ppc>>
restVars == <<bridge, files, reqs>>
vars == <<synthVars, parseVars, req, restVars>>

\* ------------------------------------------------------------------ bounds
MaxLines == 2       \* lines of an original document
MaxDiffs == 3       \* primitives of a hunk
MaxPatchLines == 3  \* lines of a patch text

\* ------------------------------------------------------------- characters
NL == "\n"
CR == "\r"
Digits == {"0", "1", "2", "3", "4", "5", "6", "7", "8", "9"}

\* os.EOL on POSIX, and its length (NEW_LINE_LENGTH)
EOL == <<NL>>
NEW_LINE_LENGTH == Len(EOL)

DIFF_DELETE == -1
DIFF_INSERT == 1
DIFF_EQUAL == 0

Min(a, b) == IF a <= b THEN a ELSE b
Max(a, b) == IF a >= b THEN a ELSE b

\* ------------------------------------------------------- string operations
\* s.substring(k) for a 0-based k: negative k counts as 0
Substring(s, k) ==
    LET from == IF k < 0 THEN 0 ELSE k
    IN  IF from >= Len(s) THEN <<>> ELSE SubSeq(s, from + 1, Len(s))

\* whether needle occurs in s at 0-based offset k
OccursAt(s, needle, k) ==
    /\ k >= 0
    /\ k + Len(needle) <= Len(s)
    /\ \A j \in 1..Len(needle) : s[k + j] = needle[j]

\* s.indexOf(needle): the first 0-based offset, or -1
IndexOf(s, needle) ==
    LET hits == {k \in 0..Len(s) : OccursAt(s, needle, k)}
    IN  IF hits = {} THEN -1 ELSE CHOOSE k \in hits : \A h \in hits : k <= h

\* s.startsWith(prefix)
StartsWith(s, prefix) == OccursAt(s, prefix, 0)

\* s.split(/[seps]/): cut at every separator character, keeping empty pieces;
\* cur is what comes before s in the first piece
SplitOn(s, seps, cur) ==
    LET cuts == {k \in 1..Len(s) : s[k] \in seps}
        n == Cardinality(cuts)
        Cut(j) == IF j = 0 THEN 0
                  ELSE IF j = n + 1 THEN Len(s) + 1
                  ELSE CHOOSE k \in cuts : Cardinality({c \in cuts : c < k}) = j - 1
    IN  [j \in 1..(n + 1) |->
            (IF j = 1 THEN cur ELSE <<>>) \o SubSeq(s, Cut(j - 1) + 1, Cut(j) - 1)]

\* a piece without the one "\r" that /\r?\n/ takes with the "\n" after it
DropCR(piece) ==
    IF piece # <<>> /\ piece[Len(piece)] = CR
    THEN SubSeq(piece, 1, Len(piece) - 1) ELSE piece

\* before.split(/\r?\n/g)
SplitLines(s) ==
    LET raw == SplitOn(s, {NL}, <<>>)
    IN  [k \in 1..Len(raw) |-> IF k < Len(raw) THEN DropCR(raw[k]) ELSE raw[k]]

RECURSIVE Concat(_)
\* the concatenation of a sequence of strings
Concat(ss) == IF ss = <<>> THEN <<>> ELSE Head(ss) \o Concat(Tail(ss))

\* ------------------------------------------------------------------- Edit
NoPos == [line |-> -1, character |-> -1]
NoEdit == [action |-> "None", start |-> NoPos, end |-> NoPos, text |-> <<>>]

\* new Edit(action, start): end is not set, text is ''
NewEdit(action, start) ==
    [action |-> action, start |-> start, end |-> NoPos, text |-> <<>>]

\* Edit.apply(): the editor's TextEdit, a range and a new text
EditApply(e) ==
    CASE e.action = "Insert"  -> [start |-> e.start, end |-> e.start, newText |-> e.text]
      [] e.action = "Delete"  -> [start |-> e.start, end |-> e.end, newText |-> <<>>]
      [] e.action = "Replace" -> [start |-> e.start, end |-> e.end, newText |-> e.text]
      [] OTHER -> [start |-> [line |-> 0, character |-> 0],
                   end |-> [line |-> 0, character |-> 0], newText |-> <<>>]

\* --------------------------------------------------- getTextEditsInternal
RECURSIVE SumLengths(_, _)
\* beforeLines.filter((_l, i) => i < line).forEach(l => character += l.length + NEW_LINE_LENGTH)
SumLengths(ls, n) ==
    IF n <= 0 \/ ls = <<>> THEN 0
    ELSE Len(Head(ls)) + NEW_LINE_LENGTH + SumLengths(Tail(ls), n - 1)

\* the cursor's character when the loop starts
InitialCharacter(doc, start) ==
    IF start > 0 THEN SumLengths(SplitLines(doc), start) ELSE 0

\* one character of the inner walk
WalkCharSameLine(pos, c) ==
    IF c # NL THEN [line |-> pos.line, character |-> pos.character + 1]
    ELSE [line |-> pos.line, character |-> 0]
WalkChar(pos, c) ==
    IF c # NL THEN [line |-> pos.line, character |-> pos.character + 1]
    ELSE [line |-> pos.line + 1, character |-> 0]

RECURSIVE Walk(_, _)
\* the line/character after the diff's text
Walk(pos, t) == IF t = <<>> THEN pos ELSE Walk(WalkChar(pos, Head(t)), Tail(t))

\* the synthesizer's loop state
SynthState(l, c, e, es, failed) ==
    [line |-> l, character |-> c, edit |-> e, edits |-> es, failed |-> failed]

\* case dmp.DIFF_DELETE, with the assignment of line 338 left out
StepDeleteNoEnd(s, t) ==
    LET start == [line |-> s.line, character |-> s.character]
        after == Walk(start, t)
    IN  IF s.edit # NoEdit /\ s.edit.action # "Delete"
        THEN SynthState(after.line, after.character, s.edit, s.edits, TRUE)
        ELSE SynthState(after.line, after.character,
                        IF s.edit = NoEdit THEN NewEdit("Delete", start) ELSE s.edit,
                        s.edits, FALSE)

\* case dmp.DIFF_DELETE, with the test of lines 334-336 left out
StepDeleteAnyEdit(s, t) ==
    LET start == [line |-> s.line, character |-> s.character]
        after == Walk(start, t)
        e == IF s.edit = NoEdit THEN NewEdit("Delete", start) ELSE s.edit
    IN  SynthState(after.line, after.character, [e EXCEPT !.end = after], s.edits, FALSE)

\* case dmp.DIFF_DELETE
StepDelete(s, t) ==
    LET start == [line |-> s.line, character |-> s.character]
        after == Walk(start, t)
    IN  IF s.edit # NoEdit /\ s.edit.action # "Delete"
        THEN SynthState(after.line, after.character, s.edit, s.edits, TRUE)
        ELSE LET e == IF s.edit = NoEdit THEN NewEdit("Delete", start) ELSE s.edit
             IN  SynthState(after.line, after.character,
                            [e EXCEPT !.end = after], s.edits, FALSE)

\* where the cursor stands after an Insert
InsertCursorAdvances(start, t) == Walk(start, t)
InsertCursor(start, t) == start

\* case dmp.DIFF_INSERT, without the upgrade of a Delete in progress
StepInsertNoUpgrade(s, t) ==
    LET start == [line |-> s.line, character |-> s.character]
        e == IF s.edit = NoEdit THEN NewEdit("Insert", start) ELSE s.edit
        cur == InsertCursor(start, t)
    IN  SynthState(cur.line, cur.character, [e EXCEPT !.text = @ \o t], s.edits, FALSE)

\* case dmp.DIFF_INSERT
StepInsert(s, t) ==
    LET start == [line |-> s.line, character |-> s.character]
        e == IF s.edit = NoEdit THEN NewEdit("Insert", start)
             ELSE IF s.edit.action = "Delete" THEN [s.edit EXCEPT !.action = "Replace"]
             ELSE s.edit
        cur == InsertCursor(start, t)
    IN  SynthState(cur.line, cur.character, [e EXCEPT !.text = @ \o t], s.edits, FALSE)

\* case dmp.DIFF_EQUAL
StepEqual(s, t) ==
    LET after == Walk([line |-> s.line, character |-> s.character], t)
    IN  IF s.edit # NoEdit
        THEN SynthState(after.line, after.character, NoEdit, Append(s.edits, s.edit), FALSE)
        ELSE SynthState(after.line, after.character, NoEdit, s.edits, FALSE)

\* one iteration of the for loop
SynthStep(s, d) ==
    CASE d.op = DIFF_DELETE -> StepDelete(s, d.text)
      [] d.op = DIFF_INSERT -> StepInsert(s, d.text)
      [] OTHER -> StepEqual(s, d.text)

\* if (edit !== null) edits.push(edit)
FinalEdits(s) == IF s.edit # NoEdit THEN Append(s.edits, s.edit) ELSE s.edits

RECURSIVE SynthLoop(_, _)
SynthLoop(s, ds) ==
    IF s.failed \/ ds = <<>> THEN s ELSE SynthLoop(SynthStep(s, Head(ds)), Tail(ds))

Failure == [failed |-> TRUE]

\* getTextEditsInternal as a function: the edits, or Failure when it throws
getTextEditsInternal(doc, ds, start) ==
    LET s == SynthLoop(SynthState(start, InitialCharacter(doc, start), NoEdit, <<>>, FALSE), ds)
    IN  IF s.failed THEN Failure ELSE [failed |-> FALSE, edits |-> FinalEdits(s)]

\* diff[1] += EOL, for every diff of a patch
AddLineFeeds(ds) == [k \in 1..Len(ds) |-> [op |-> ds[k].op, text |-> ds[k].text \o EOL]]

\* ---------------------------------------------------------- patch_fromText
DigitValue(c) ==
    CASE c = "0" -> 0 [] c = "1" -> 1 [] c = "2" -> 2 [] c = "3" -> 3 [] c = "4" -> 4
      [] c = "5" -> 5 [] c = "6" -> 6 [] c = "7" -> 7 [] c = "8" -> 8 [] c = "9" -> 9

RECURSIVE ParseIntFrom(_, _)
ParseIntFrom(ds, acc) ==
    IF ds = <<>> THEN acc ELSE ParseIntFrom(Tail(ds), acc * 10 + DigitValue(Head(ds)))

\* parseInt(ds, 10) of a non-empty string of digits
ParseInt(ds) == ParseIntFrom(ds, 0)

\* e(x) for the one x of the set S: x is computed once, where a LET name is
\* computed again at each use when TLC evaluates ENABLED
With(S, e(_)) == CHOOSE r \in {e(x) : x \in S} : TRUE

RECURSIVE DigitRun(_, _)
\* how many digits s holds from the 1-based place k on: what \d+ or \d* takes
DigitRun(s, k) ==
    IF k <= Len(s) /\ s[k] \in Digits THEN 1 + DigitRun(s, k + 1) ELSE 0

\* one half of the header, "<digits>,?<digits>", from place k: the two groups and
\* the place after them
HalfAt(s, k) ==
    With({DigitRun(s, k)}, LAMBDA n1 :
      With({IF k + n1 <= Len(s) /\ s[k + n1] = "," THEN 1 ELSE 0}, LAMBDA c :
        With({DigitRun(s, k + n1 + c)}, LAMBDA n2 :
          [first |-> SubSeq(s, k, k + n1 - 1),
           second |-> SubSeq(s, k + n1 + c, k + n1 + c + n2 - 1),
           next |-> k + n1 + c + n2])))

\* the end of the header: " @@" and nothing after it
HeaderEnd(s, k) == OccursAt(s, <<" ", "@", "@">>, k - 1) /\ k + 2 = Len(s)

\* text[textPointer].match(/^@@ -(\d+),?(\d*) \+(\d+),?(\d*) @@$/): the four
\* groups, or no match
MatchHeader(s) ==
    With({HalfAt(s, 5)}, LAMBDA h1 :
      With({HalfAt(s, h1.next + 2)}, LAMBDA h2 :
        IF /\ StartsWith(s, <<"@", "@", " ", "-">>)
           /\ h1.first # <<>>
           /\ OccursAt(s, <<" ", "+">>, h1.next - 1)
           /\ h2.first # <<>>
           /\ HeaderEnd(s, h2.next)
        THEN [ok |-> TRUE, m |-> <<h1.first, h1.second, h2.first, h2.second>>]
        ELSE [ok |-> FALSE]))

\* the start and the length read from one half, lines 395-404 and 406-415
HalfNoAdjust(first, second) ==
    IF second = <<>> THEN [start |-> ParseInt(first) - 1, length |-> 1]
    ELSE [start |-> ParseInt(first) - 1, length |-> ParseInt(second)]
HalfValues(first, second) ==
    IF second = <<>> THEN [start |-> ParseInt(first) - 1, length |-> 1]
    ELSE IF second = <<"0">> THEN [start |-> ParseInt(first), length |-> 0]
    ELSE [start |-> ParseInt(first) - 1, length |-> ParseInt(second)]

\* new patch_obj() with the header's values
NewPatch(m) ==
    LET a == HalfValues(m[1], m[2])
        b == HalfValues(m[3], m[4])
    IN  [diffs |-> <<>>, start1 |-> a.start, length1 |-> a.length,
         start2 |-> b.start, length2 |-> b.length]

\* the parser's loop state
ParserState(t, tp, ps, pc) == [text |-> t, textPointer |-> tp, patches |-> ps, pc |-> pc]

\* patch.diffs.push([op, line]) on the first patch
PushDiffFirst(ps, op, payload) ==
    [ps EXCEPT ![1].diffs = Append(@, [op |-> op, text |-> payload])]

\* patch.diffs.push([op, line]) on the last patch
PushDiff(ps, op, payload) ==
    [ps EXCEPT ![Len(ps)].diffs = Append(@, [op |-> op, text |-> payload])]

\* lines 388-417: the line at the cursor as a header
HeaderStep(s) ==
    With({MatchHeader(s.text[s.textPointer])}, LAMBDA m :
      IF ~m.ok THEN [s EXCEPT !.pc = "threw"]
      ELSE ParserState(s.text, s.textPointer + 1, Append(s.patches, NewPatch(m.m)), "content"))

\* what a content line with this sign does
SignKindLenient(sign) ==
    CASE sign = <<"-">> -> "delete"
      [] sign = <<"+">> -> "insert"
      [] sign = <<" ">> -> "equal"
      [] sign = <<"@">> -> "break"
      [] OTHER -> "blank"
SignKind(sign) ==
    CASE sign = <<"-">> -> "delete"
      [] sign = <<"+">> -> "insert"
      [] sign = <<" ">> -> "equal"
      [] sign = <<"@">> -> "break"
      [] sign = <<>> -> "blank"
      [] OTHER -> "throw"

\* lines 420-451, with the increment of line 451 skipped for a blank line
ContentStepBlankStays(s) ==
    LET l == s.text[s.textPointer]
        sign == SubSeq(l, 1, Min(1, Len(l)))
        payload == Substring(l, 1)
        kind == SignKind(sign)
        next == s.textPointer + 1
    IN  CASE kind = "delete" ->
               ParserState(s.text, next, PushDiff(s.patches, DIFF_DELETE, payload), "content")
          [] kind = "insert" ->
               ParserState(s.text, next, PushDiff(s.patches, DIFF_INSERT, payload), "content")
          [] kind = "equal" ->
               ParserState(s.text, next, PushDiff(s.patches, DIFF_EQUAL, payload), "content")
          [] kind = "break" -> [s EXCEPT !.pc = "header"]
          [] kind = "blank" -> s
          [] OTHER -> [s EXCEPT !.pc = "threw"]

\* lines 420-451: one iteration of the inner loop
ContentStep(s) ==
    LET l == s.text[s.textPointer]
        sign == SubSeq(l, 1, Min(1, Len(l)))
        payload == Substring(l, 1)
        kind == SignKind(sign)
        next == s.textPointer + 1
    IN  CASE kind = "delete" ->
               ParserState(s.text, next, PushDiff(s.patches, DIFF_DELETE, payload), "content")
          [] kind = "insert" ->
               ParserState(s.text, next, PushDiff(s.patches, DIFF_INSERT, payload), "content")
          [] kind = "equal" ->
               ParserState(s.text, next, PushDiff(s.patches, DIFF_EQUAL, payload), "content")
          [] kind = "break" -> [s EXCEPT !.pc = "header"]
          [] kind = "blank" -> [s EXCEPT !.textPointer = next]
          [] OTHER -> [s EXCEPT !.pc = "threw"]

RECURSIVE ParseLoop(_)
\* the two loops, to the return or the throw
ParseLoop(s) ==
    IF s.pc = "threw" THEN s
    ELSE IF s.textPointer > Len(s.text) THEN [s EXCEPT !.pc = "done"]
    ELSE IF s.pc = "header" THEN ParseLoop(HeaderStep(s))
    ELSE ParseLoop(ContentStep(s))

\* textline.split(/[\r\n]/)
SplitPatchTextOnNewline(t) == SplitOn(t, {NL}, <<>>)
SplitPatchText(t) == SplitOn(t, {CR, NL}, <<>>)

\* patch_fromText as a function: the patches, or Failure when it throws
patch_fromText(t) ==
    IF t = <<>> THEN [failed |-> FALSE, patches |-> <<>>]
    ELSE LET s == ParseLoop(ParserState(SplitPatchText(t), 1, <<>>, "header"))
         IN  IF s.pc = "threw" THEN Failure ELSE [failed |-> FALSE, patches |-> s.patches]

\* edit.apply() for each edit, line 482
TextEditsOf(es) == [k \in 1..Len(es) |-> EditApply(es[k])]

\* --------------------------------------------------- getTextEditsFromPatch
NoNewlineMarker == <<"\\", " ", "N", "o", " ", "n", "e", "w", "l", "i", "n", "e", " ", "a", "t", " ", "e", "n", "d", " ", "o", "f", " ", "f", "i", "l", "e">>

\* patch.replace(/\\ No newline at end of file[\r\n]/, ''): the first marker that
\* a line terminator follows goes, with that one character
StripMarker(t) ==
    LET n == Len(NoNewlineMarker)
        hits == {k \in 0..Len(t) : OccursAt(t, NoNewlineMarker, k)
                                     /\ k + n + 1 <= Len(t) /\ t[k + n + 1] \in {CR, NL}}
    IN  IF hits = {} THEN t
        ELSE LET k == CHOOSE h \in hits : \A g \in hits : h <= g
             IN  SubSeq(t, 1, k) \o SubSeq(t, k + n + 2, Len(t))

\* lines 458-461: without the file header block
StripFileHeader(t) ==
    IF StartsWith(t, <<"-", "-", "-">>) THEN Substring(t, IndexOf(t, <<"@", "@">>)) ELSE t

\* the Error a failed parse throws: its message
InvalidPatchString == <<"I", "n", "v", "a", "l", "i", "d", " ", "p", "a", "t", "c", "h", " ", "s", "t", "r", "i", "n", "g", ":", " ">>
InvalidPatchMode == <<"I", "n", "v", "a", "l", "i", "d", " ", "p", "a", "t", "c", "h", " ", "m", "o", "d", "e", " ", "'">>
UnableToParse == <<"U", "n", "a", "b", "l", "e", " ", "t", "o", " ", "p", "a", "r", "s", "e", " ", "P", "a", "t", "c", "h", " ", "s", "t", "r", "i", "n", "g">>
InternalError == <<"c", "a", "n", "n", "o", "t", " ", "f", "o", "r", "m", "a", "t", " ", "d", "u", "e", " ", "t", "o", " ", "a", "n", " ", "i", "n", "t", "e", "r", "n", "a", "l", " ", "e", "r", "r", "o", "r", ".">>
ParseErrorMessage(s) ==
    LET l == s.text[s.textPointer]
    IN  IF s.pc # "threw" THEN <<>>
        ELSE IF ~(s.textPointer = 1 \/ StartsWith(l, <<"@">>))
        THEN InvalidPatchMode \o SubSeq(l, 1, 1) \o <<"'", " ", "i", "n", ":", " ">> \o Substring(l, 1)
        ELSE InvalidPatchString \o l

RECURSIVE PatchEdits(_, _)
\* lines 478-483: the text edits of the patches in order, or the first failure
PatchEdits(doc, ps) ==
    IF ps = <<>> THEN [failed |-> FALSE, edits |-> <<>>]
    ELSE LET r == getTextEditsInternal(doc, AddLineFeeds(Head(ps).diffs), Head(ps).start1)
         IN  IF r.failed THEN [failed |-> TRUE, message |-> InternalError]
             ELSE LET rest == PatchEdits(doc, Tail(ps))
                  IN  IF rest.failed THEN rest
                      ELSE [failed |-> FALSE, edits |-> TextEditsOf(r.edits) \o rest.edits]

\* line 463: patch.length === 0
IsEmptyPatchNever(patch) == FALSE
IsEmptyPatch(patch) == Len(patch) = 0

\* getTextEditsFromPatch as a function: the text edits, or the error thrown
getTextEditsFromPatch(doc, patch) ==
    LET p1 == StripFileHeader(patch)
        p2 == StripMarker(p1)
        s == ParseLoop(ParserState(SplitPatchText(p2), 1, <<>>, "header"))
    IN  IF IsEmptyPatch(p1) THEN [failed |-> FALSE, edits |-> <<>>]
        ELSE IF p2 = <<>> THEN [failed |-> TRUE, message |-> UnableToParse]
        ELSE IF s.pc = "threw" THEN [failed |-> TRUE, message |-> ParseErrorMessage(s)]
        ELSE IF s.patches = <<>> THEN [failed |-> TRUE, message |-> UnableToParse]
        ELSE PatchEdits(doc, s.patches)

\* ------------------------------------------------ inputs of the synthesizer
DocLineSet == {<<"a">>, <<"b">>, <<"c", "c">>}
InsLineSet == {<<"x">>, <<"y", "y">>}
Ops == {DIFF_DELETE, DIFF_INSERT, DIFF_EQUAL}

SeqsUpTo(S, n) == UNION {[1..k -> S] : k \in 0..n}

\* a document of newline-terminated lines
DocOf(ls) == Concat([k \in 1..Len(ls) |-> ls[k] \o <<NL>>])
DocLines == SeqsUpTo(DocLineSet, MaxLines)

\* how many of the first k - 1 primitives consume a line of the original
Consumed(ops, k) == Cardinality({j \in 1..(k - 1) : ops[j] # DIFF_INSERT})

\* the hunks (payloads without terminator, as patch_fromText leaves them) whose
\* Equal and Delete primitives are the lines of ls from line s on
MatchingHunks(ls, s) ==
    { [k \in 1..Len(ops) |->
          [op |-> ops[k],
           text |-> IF ops[k] = DIFF_INSERT THEN ins[k]
                    ELSE ls[s + Consumed(ops, k) + 1]]] :
      ops \in {o \in SeqsUpTo(Ops, MaxDiffs) : s + Consumed(o, Len(o) + 1) <= Len(ls)},
      ins \in [1..MaxDiffs -> InsLineSet] }

\* payloads for a direct call: empty, no newline, several newlines
RawTexts == {<<>>, <<"a">>, <<NL, "b", NL>>}
RawDiffs == SeqsUpTo([op : Ops, text : RawTexts], MaxDiffs)
RawDocs == {<<>>, DocOf(<<<<"a">>, <<"c", "c">>>>)}
RawStartLines == 0..2

\* ------------------------------------------- the parts a specification leaves alone
IdleParser ==
    /\ textline = <<>>
    /\ text = <<>>
    /\ textPointer = 0
    /\ patches = <<>>
    /\ ppc = "idle"

IdleSynth ==
    /\ mode = "idle"
    /\ before = <<>>
    /\ diffs = <<>>
    /\ startLine = 0
    /\ spc = "idle"
    /\ i = 0
    /\ line = 0
    /\ character = 0
    /\ edit = NoEdit
    /\ edits = <<>>

IdleRequest == req = [pc |-> "idle"]

IdleBridge == bridge = [pc |-> "idle"]

IdleShared ==
    /\ files = <<>>
    /\ reqs = <<>>

IdleRest == IdleBridge /\ IdleShared

\* ------------------------------------------------------ inputs of the parser
RECURSIVE Decimal(_)
\* a number as it is written
Decimal(n) ==
    LET d == CHOOSE c \in Digits : DigitValue(c) = n % 10
    IN  IF n < 10 THEN <<d>> ELSE Append(Decimal(n \div 10), d)

\* one half of a header as a diff tool writes it: the start; then, unless the
\* length is omitted (len = -1), a comma and the length, here with pad zeros before it
HalfSpecs ==
    {[s |-> 5, len |-> -1, pad |-> 0], [s |-> 5, len |-> 0, pad |-> 0],
     [s |-> 5, len |-> 3, pad |-> 0], [s |-> 5, len |-> 0, pad |-> 1],
     [s |-> 12, len |-> 10, pad |-> 0]}
PlusHalfSpecs == {h \in HalfSpecs : h.pad = 0 /\ h.len # 10}
Written(h) ==
    Decimal(h.s) \o (IF h.len = -1 THEN <<>>
                     ELSE <<",">> \o [k \in 1..h.pad |-> "0"] \o Decimal(h.len))
Hdr(a, b) == <<"@", "@", " ", "-">> \o a \o <<" ", "+">> \o b \o <<" ", "@", "@">>

HeaderLines == {Hdr(Written(a), Written(b)) : a \in HalfSpecs, b \in PlusHalfSpecs}
\* lines that are almost headers
NearHeaders == {<<"@", "@", " ", "-", "5", " ", "+", "5", " ", "@", "@", "x">>, <<"@", "@", " ", "-", ",", "3", " ", "+", "5", " ", "@", "@">>, <<"@", "@", " ", "-", "5", ",", " ", "+", "5", " ", "@", "@">>}
FirstLines == HeaderLines \cup NearHeaders \cup {<<"n", "o", "t", " ", "a", " ", "h", "e", "a", "d", "e", "r">>, <<>>, <<"-", "a">>}
LaterLines ==
    {<<"@", "@", " ", "-", "5", " ", "+", "5", " ", "@", "@">>, <<"@", "@", " ", "-", "1", ",", "2", " ", "+", "1", ",", "0", " ", "@", "@">>, <<"@", "@", " ", "-", "5", " ", "+", "5", " ", "@", "@", "x">>,
     <<"-", "a">>, <<"+", "b">>, <<" ", "a">>, <<>>, <<"x">>, <<"@">>}

\* the patch texts: a first line and up to MaxPatchLines - 1 more, each line ended
\* by term, the last one ended or not
PatchTexts(term) ==
    { Concat([k \in 1..(Len(rest) + 1) |->
                 (IF k = 1 THEN first ELSE rest[k - 1])
                 \o (IF k = Len(rest) + 1 /\ ~ended THEN <<>> ELSE term)]) :
      first \in FirstLines, rest \in SeqsUpTo(LaterLines, MaxPatchLines - 1),
      ended \in BOOLEAN }

ParseInit ==
    /\ textline \in {<<>>} \cup PatchTexts(<<NL>>) \cup PatchTexts(<<CR, NL>>)
    /\ text = <<>>
    /\ textPointer = 0
    /\ patches = <<>>
    /\ ppc = "start"
    /\ IdleSynth
    /\ IdleRequest
    /\ IdleRest

\* lines 378-385
ParseStart ==
    /\ ppc = "start"
    /\ IF textline = <<>>
       THEN ppc' = "done" /\ UNCHANGED <<text, textPointer>>
       ELSE /\ text' = SplitPatchText(textline)
            /\ textPointer' = 1
            /\ ppc' = "header"
    /\ UNCHANGED <<textline, patches, synthVars, req, restVars>>

ParserNow == ParserState(text, textPointer, patches, ppc)

ParseTake(s) ==
    /\ textPointer' = s.textPointer
    /\ patches' = s.patches
    /\ ppc' = s.pc
    /\ UNCHANGED <<textline, text, synthVars, req, restVars>>

\* lines 387-417: one header
ParseHeader ==
    /\ ppc = "header" /\ textPointer <= Len(text)
    /\ \E s \in {HeaderStep(ParserNow)} : ParseTake(s)

\* lines 419-452: one content line
ParseContent ==
    /\ ppc = "content" /\ textPointer <= Len(text)
    /\ ParseTake(ContentStep(ParserNow))

\* lines 387, 419, 454: both loops end with the input
ParseReturn ==
    /\ ppc \in {"header", "content"} /\ textPointer > Len(text)
    /\ ppc' = "done"
    /\ UNCHANGED <<textline, text, textPointer, patches, synthVars, req, restVars>>

ParseNext ==
    \/ ParseStart
    \/ ParseHeader
    \/ ParseContent
    \/ ParseReturn

SpecParse == ParseInit /\ [][ParseNext]_vars

\* the texts with "\n" terminators: after the split, a "\r\n" text is such a
\* text with blank lines, which these have as well
ParseInitNewlines ==
    /\ ParseInit
    /\ ~\E k \in 1..Len(textline) : textline[k] = CR

\* patch_fromText is synchronous code on one thread: a step that can be taken is taken
SpecParseFair == ParseInitNewlines /\ [][ParseNext]_vars /\ WF_vars(ParseNext)

SynthInit ==
    /\ \/ /\ mode = "patch"
          /\ \E ls \in DocLines : \E s \in 0..Len(ls) :
                /\ before = DocOf(ls)
                /\ startLine = s
                /\ diffs \in MatchingHunks(ls, s)
          /\ spc = "feeds"
       \/ /\ mode = "direct"
          /\ before \in RawDocs
          /\ startLine \in RawStartLines
          /\ diffs \in RawDiffs
          /\ spc = "begin"
    /\ i = 0
    /\ line = 0
    /\ character = 0
    /\ edit = NoEdit
    /\ edits = <<>>
    /\ IdleParser
    /\ IdleRequest
    /\ IdleRest

\* getTextEditsFromPatch, lines 479-481: diff[1] += EOL
SynthAddLineFeeds ==
    /\ spc = "feeds"
    /\ diffs' = AddLineFeeds(diffs)
    /\ spc' = "begin"
    /\ UNCHANGED <<mode, before, startLine, i, line, character, edit, edits, parseVars, req, restVars>>

\* getTextEditsInternal, lines 309-316
SynthBegin ==
    /\ spc = "begin"
    /\ line' = startLine
    /\ character' = InitialCharacter(before, startLine)
    /\ edits' = <<>>
    /\ edit' = NoEdit
    /\ i' = 1
    /\ spc' = "loop"
    /\ UNCHANGED <<mode, before, diffs, startLine, parseVars, req, restVars>>

CurrentState == SynthState(line, character, edit, edits, FALSE)

\* the loop body's effect on the variables
SynthTake(s) ==
    /\ line' = s.line
    /\ character' = s.character
    /\ edit' = s.edit
    /\ edits' = s.edits
    /\ IF s.failed THEN spc' = "threw" /\ i' = i ELSE spc' = "loop" /\ i' = i + 1
    /\ UNCHANGED <<mode, before, diffs, startLine, parseVars, req, restVars>>

SynthDelete ==
    /\ spc = "loop" /\ i <= Len(diffs) /\ diffs[i].op = DIFF_DELETE
    /\ SynthTake(StepDelete(CurrentState, diffs[i].text))

SynthInsert ==
    /\ spc = "loop" /\ i <= Len(diffs) /\ diffs[i].op = DIFF_INSERT
    /\ SynthTake(StepInsert(CurrentState, diffs[i].text))

SynthEqual ==
    /\ spc = "loop" /\ i <= Len(diffs) /\ diffs[i].op = DIFF_EQUAL
    /\ SynthTake(StepEqual(CurrentState, diffs[i].text))

\* lines 364-368
SynthReturn ==
    /\ spc = "loop" /\ i > Len(diffs)
    /\ edits' = FinalEdits(CurrentState)
    /\ spc' = "done"
    /\ UNCHANGED <<mode, before, diffs, startLine, i, line, character, edit, parseVars, req, restVars>>

SynthNext ==
    \/ SynthAddLineFeeds
    \/ SynthBegin
    \/ SynthDelete
    \/ SynthInsert
    \/ SynthEqual
    \/ SynthReturn

SpecSynth == SynthInit /\ [][SynthNext]_vars

\* ------------------------------------- BaseFormatter.provideDocumentFormattingEdits
ModuleName == <<"y", "a", "p", "f">>
NoModuleNamed == <<"N", "o", " ", "m", "o", "d", "u", "l", "e", " ", "n", "a", "m", "e", "d">>
NoStderr == [defined |-> FALSE, text |-> <<>>]
StderrOf(t) == [defined |-> TRUE, text |-> t]

\* ErrorUtils.outputHasModuleNotInstalledError(moduleName, content)
OutputHasModuleNotInstalledError(moduleName, content) ==
    /\ content.defined
    /\ content.text # <<>>
    /\ \/ IndexOf(content.text, NoModuleNamed \o <<" ">> \o moduleName) > 0
       \/ IndexOf(content.text, NoModuleNamed \o <<" ", "'">> \o moduleName \o <<"'">>) > 0

NoError == [kind |-> "none", code |-> "none", message |-> <<>>]
SpawnError(code) == [kind |-> "spawn", code |-> code, message |-> <<"s", "p", "a", "w", "n">> \o <<" ">> \o code]
ModuleNotInstalledError == [kind |-> "ModuleNotInstalledError", code |-> "none", message |-> <<"M", "o", "d", "u", "l", "e", " ", "'", "y", "a", "p", "f", "'", " ", "n", "o", "t", " ", "i", "n", "s", "t", "a", "l", "l", "e", "d", ".">>]
ThrownError(message) == [kind |-> "Error", code |-> "none", message |-> message]

\* isNotInstalledError(error)
IsNotInstalledError(error) ==
    \/ error.kind = "ModuleNotInstalledError"
    \/ error.code = "ENOENT"
    \/ error.code = "127"   \* the number 127; codes are written as strings here
    \/ IndexOf(error.message, NoModuleNamed) >= 0

\* handleError: one warning, "Formatting with <Id> failed." and, for a
\* not-installed error, " <Id> module is not installed."
HandleErrorSilent(r, error) == [r EXCEPT !.log = Append(@, "handleError")]
HandleError(r, error) ==
    [r EXCEPT !.messages = Append(@, [failed |-> TRUE, notInstalled |-> IsNotInstalledError(error)]),
              !.log = Append(@, "handleError")]

\* deleteTempFile: the temporary file never has the original's name
DeleteTempFile(r) == [r EXCEPT !.tempFile = "deleted", !.log = Append(@, "unlink")]

\* checkCancellation's answer
CheckCancellationNever(r) == FALSE
CheckCancellation(r) == r.token

\* the request reaching a check point: what the token holds there is noted
AtCheckPoint(r) == IF r.token THEN [r EXCEPT !.log = Append(@, "tokenSetAtCheck")] ELSE r

\* a check point that finds the request cancelled: [] is returned
Cancelled(r, pc) ==
    [DeleteTempFile(r) EXCEPT !.result = <<>>, !.outcome = "resolved", !.pc = pc,
                              !.log = Append(@, "return")]

Document == <<"a", NL, "b", NL>>
NoResult == <<"none">>
ErrCodes == {"ENOENT", "EACCES"}
ExitCodes == {0, 1, 127}
Stdouts == {<<>>, <<"@", "@", " ", "-", "1", " ", "+", "1", " ", "@", "@", NL, "-", "a", NL, "+", "x", NL>>, <<"n", "o", "t", " ", "a", " ", "h", "e", "a", "d", "e", "r", NL>>, <<"@", "@", " ", "-", "1", " ", "+", "1", " ", "@", "@", NL, "+", "x", NL, "-", "a", NL>>}
Stderrs ==
    {NoStderr, StderrOf(<<"e", "r", "r", "o", "r", ":", " ", "c", "a", "n", "n", "o", "t", " ", "f", "o", "r", "m", "a", "t">>), StderrOf(NoModuleNamed \o <<" ">> \o ModuleName),
     StderrOf(<<"p", "y", "t", "h", "o", "n", ":", " ">> \o NoModuleNamed \o <<" ">> \o ModuleName),
     StderrOf(<<"p", "y", "t", "h", "o", "n", ":", " ">> \o NoModuleNamed \o <<" ", "'">> \o ModuleName \o <<"'">>)}

FormatInit ==
    /\ \E isModule \in BOOLEAN, installed \in BOOLEAN :
          req = [pc |-> "createTempFile", token |-> FALSE, tempFile |-> "none",
                 isModule |-> isModule, installed |-> installed,
                 event |-> "none", exitCode |-> 0, stdout |-> <<>>, stderr |-> NoStderr,
                 error |-> NoError, result |-> NoResult, outcome |-> "pending",
                 messages |-> <<>>, log |-> <<>>]
    /\ IdleSynth
    /\ IdleParser
    /\ IdleRest

\* token.isCancellationRequested becomes true, at any time before the request ends
Cancel ==
    /\ req.pc \notin {"idle", "done"}
    /\ ~req.token
    /\ req' = [req EXCEPT !.token = TRUE]
    /\ UNCHANGED <<synthVars, parseVars, restVars>>

\* line 547, getTempFileWithDocumentContents: the file is written, or the write
\* fails and the request is rejected
CreateTempFile ==
    /\ req.pc = "createTempFile"
    /\ \E ok \in BOOLEAN :
          req' = IF ok THEN [req EXCEPT !.tempFile = "written", !.pc = "check1"]
                 ELSE [req EXCEPT !.outcome = "rejected", !.pc = "done"]
    /\ UNCHANGED <<synthVars, parseVars, restVars>>

\* lines 548-550
CheckAfterTempFile ==
    /\ req.pc = "check1"
    /\ req' = IF CheckCancellation(req) THEN Cancelled(AtCheckPoint(req), "done")
              ELSE [AtCheckPoint(req) EXCEPT !.pc = "getExecutionInfo"]
    /\ UNCHANGED <<synthVars, parseVars, restVars>>

\* lines 552 and 513-529: the configured path is read with no check ("as string");
\* path.basename of a value that is not a string throws, outside every handler,
\* so the request is rejected and lines 555-585 never run
GetExecutionInfo ==
    /\ req.pc = "getExecutionInfo"
    /\ \E isString \in BOOLEAN :
          req' = IF isString THEN [req EXCEPT !.pc = "exec"]
                 ELSE [req EXCEPT !.outcome = "rejected", !.pc = "done"]
    /\ UNCHANGED <<synthVars, parseVars, restVars>>

\* lines 192-195: the process cannot be spawned
ExecError ==
    /\ req.pc = "exec"
    /\ \E code \in ErrCodes :
          req' = [req EXCEPT !.event = "error", !.error = SpawnError(code), !.pc = "catch"]
    /\ UNCHANGED <<synthVars, parseVars, restVars>>

\* lines 180-191 and 256-270: the process closes, with any exit status and output;
\* for a module run the error output is searched
ExecClose ==
    /\ req.pc = "exec"
    /\ \E code \in ExitCodes, out \in Stdouts, err \in Stderrs :
          req' = [req EXCEPT !.event = "close", !.exitCode = code, !.stdout = out,
                             !.stderr = err,
                             !.pc = IF req.isModule
                                       /\ OutputHasModuleNotInstalledError(ModuleName, err)
                                    THEN "isModuleInstalled" ELSE "then"]
    /\ UNCHANGED <<synthVars, parseVars, restVars>>

\* lines 261-264
IsModuleInstalled ==
    /\ req.pc = "isModuleInstalled"
    /\ req' = IF req.installed THEN [req EXCEPT !.pc = "then"]
              ELSE [req EXCEPT !.error = ModuleNotInstalledError, !.pc = "catch"]
    /\ UNCHANGED <<synthVars, parseVars, restVars>>

\* what the then-callback does with the output when the request is not cancelled
ParseOutput(r) ==
    LET got == getTextEditsFromPatch(Document, r.stdout)
        r1 == [r EXCEPT !.log = Append(@, "parse")]
    IN  IF got.failed THEN [r1 EXCEPT !.error = ThrownError(got.message), !.pc = "catch"]
        ELSE [r1 EXCEPT !.result = got.edits, !.outcome = "resolved", !.pc = "settled",
                        !.log = Append(@, "return")]

\* lines 558-563
ThenOutput ==
    /\ req.pc = "then"
    /\ req' = IF CheckCancellation(req) THEN Cancelled(AtCheckPoint(req), "settled")
              ELSE ParseOutput(AtCheckPoint(req))
    /\ UNCHANGED <<synthVars, parseVars, restVars>>

\* lines 564-570
CatchError ==
    /\ req.pc = "catch"
    /\ req' = IF CheckCancellation(req) THEN Cancelled(AtCheckPoint(req), "settled")
              ELSE [HandleError(AtCheckPoint(req), req.error) EXCEPT
                        !.result = <<>>, !.outcome = "resolved", !.pc = "settled",
                        !.log = Append(@, "return")]
    /\ UNCHANGED <<synthVars, parseVars, restVars>>

\* lines 571-580: the promise never rejects, so the first callback runs
Settled ==
    /\ req.pc = "settled"
    /\ req' = [DeleteTempFile(req) EXCEPT !.messages = Append(@, [failed |-> FALSE, notInstalled |-> FALSE]),
                                          !.log = Append(@, "formatted"), !.pc = "done"]
    /\ UNCHANGED <<synthVars, parseVars, restVars>>

FormatNext ==
    \/ Cancel
    \/ CreateTempFile
    \/ CheckAfterTempFile
    \/ GetExecutionInfo
    \/ ExecError
    \/ ExecClose
    \/ IsModuleInstalled
    \/ ThenOutput
    \/ CatchError
    \/ Settled

SpecFormat == FormatInit /\ [][FormatNext]_vars

\* ------------------------------ two requests at once and the directory they share
Requests == 1..2
Uris == {"a.py", "b.py"}
Absent == 0    \* no file under that name
NotRead == -1  \* the formatter has not opened its argument

\* lines 290-298: `${fsPath}.${md5(document.uri)}${ext}`, computed from the
\* document's uri and from nothing else
Md5(uri) == <<"md5", uri>>
TempFileName(uri) == <<uri, ".", Md5(uri), ".py">>
TempFileNames == {TempFileName(u) : u \in Uris}

\* fs.writeFile and fs.unlink on the directory; unlinking a missing file fails
\* and the failure is swallowed (.catch(() => {}))
WriteFile(fs, name, r) == [fs EXCEPT ![name] = r]
Unlink(fs, name) == [fs EXCEPT ![name] = Absent]

SharedInit ==
    /\ files = [n \in TempFileNames |-> Absent]
    /\ \E docs \in [Requests -> Uris] :
          reqs = [r \in Requests |->
                    [pc |-> "createTempFile", uri |-> docs[r], token |-> FALSE,
                     tempFile |-> <<>>, read |-> NotRead, outcome |-> "pending"]]
    /\ IdleSynth
    /\ IdleParser
    /\ IdleRequest
    /\ IdleBridge

SharedCancel(r) ==
    /\ reqs[r].pc # "done"
    /\ ~reqs[r].token
    /\ reqs' = [reqs EXCEPT ![r].token = TRUE]
    /\ UNCHANGED <<synthVars, parseVars, req, bridge, files>>

\* line 547
SharedCreateTempFile(r) ==
    /\ reqs[r].pc = "createTempFile"
    /\ \E ok \in BOOLEAN :
          IF ok
          THEN /\ files' = WriteFile(files, TempFileName(reqs[r].uri), r)
               /\ reqs' = [reqs EXCEPT ![r].tempFile = TempFileName(reqs[r].uri),
                                       ![r].pc = "check1"]
          ELSE /\ reqs' = [reqs EXCEPT ![r].outcome = "rejected", ![r].pc = "done"]
               /\ UNCHANGED files
    /\ UNCHANGED <<synthVars, parseVars, req, bridge>>

\* lines 548-550
SharedCheckAfterTempFile(r) ==
    /\ reqs[r].pc = "check1"
    /\ IF CheckCancellation(reqs[r])
       THEN /\ files' = Unlink(files, reqs[r].tempFile)
            /\ reqs' = [reqs EXCEPT ![r].outcome = "resolved", ![r].pc = "done"]
       ELSE /\ reqs' = [reqs EXCEPT ![r].pc = "getExecutionInfo"]
            /\ UNCHANGED files
    /\ UNCHANGED <<synthVars, parseVars, req, bridge>>

\* line 552
SharedGetExecutionInfo(r) ==
    /\ reqs[r].pc = "getExecutionInfo"
    /\ \E isString \in BOOLEAN :
          reqs' = IF isString THEN [reqs EXCEPT ![r].pc = "exec"]
                  ELSE [reqs EXCEPT ![r].outcome = "rejected", ![r].pc = "done"]
    /\ UNCHANGED <<synthVars, parseVars, req, bridge, files>>

\* lines 553-557: the process is spawned with the temporary file's name as its
\* last argument and opens that name, or it cannot be spawned
SharedExec(r) ==
    /\ reqs[r].pc = "exec"
    /\ \E spawned \in BOOLEAN :
          reqs' = IF spawned
                  THEN [reqs EXCEPT ![r].read = files[reqs[r].tempFile], ![r].pc = "callback"]
                  ELSE [reqs EXCEPT ![r].pc = "callback"]
    /\ UNCHANGED <<synthVars, parseVars, req, bridge, files>>

\* lines 558-570: the then- or the catch-callback, each with its check point
SharedCallback(r) ==
    /\ reqs[r].pc = "callback"
    /\ files' = IF CheckCancellation(reqs[r]) THEN Unlink(files, reqs[r].tempFile) ELSE files
    /\ reqs' = [reqs EXCEPT ![r].outcome = "resolved", ![r].pc = "settled"]
    /\ UNCHANGED <<synthVars, parseVars, req, bridge>>

\* lines 571-580
SharedSettled(r) ==
    /\ reqs[r].pc = "settled"
    /\ files' = Unlink(files, reqs[r].tempFile)
    /\ reqs' = [reqs EXCEPT ![r].pc = "done"]
    /\ UNCHANGED <<synthVars, parseVars, req, bridge>>

SharedNext ==
    \E r \in Requests :
        \/ SharedCancel(r)
        \/ SharedCreateTempFile(r)
        \/ SharedCheckAfterTempFile(r)
        \/ SharedGetExecutionInfo(r)
        \/ SharedExec(r)
        \/ SharedCallback(r)
        \/ SharedSettled(r)

SpecShared == SharedInit /\ [][SharedNext]_vars

\* ------------------------------------------ getTextEditsFromPatch, step by step
MaxHunks == 2   \* hunks of a patch text given to getTextEditsFromPatch

MarkerOnly == NoNewlineMarker \o <<NL>>
FileHeader == <<<<"-", "-", "-", " ", "a">>, <<"+", "+", "+", " ", "b">>>>

\* hunks against Document, as lines: line 1 replaced, line 2 replaced, line 2
\* replaced after a context line, line 2 with the new line written first (the
\* synthesizer refuses it), and a hunk with a line that has no sign
HunkSet ==
    {<<Hdr(<<"1">>, <<"1">>), <<"-", "a">>, <<"+", "x">>>>,
     <<Hdr(<<"2">>, <<"2">>), <<"-", "b">>, <<"+", "y">>>>,
     <<Hdr(<<"1", ",", "2">>, <<"1", ",", "2">>), <<" ", "a">>, <<"-", "b">>, <<"+", "y">>>>,
     <<Hdr(<<"2">>, <<"2">>), <<"+", "y">>, <<"-", "b">>>>,
     <<Hdr(<<"2">>, <<"2">>), <<"x">>>>}

\* the lines with the marker line put after the last line of the old side
\* ("-"), after the last line of the new side ("+"), or after both
LastWith(ls, sign) ==
    LET at == {k \in 1..Len(ls) : StartsWith(ls[k], <<sign>>)}
    IN  IF at = {} THEN 0 ELSE CHOOSE k \in at : \A j \in at : j <= k
InsertAfter(ls, k, l) == SubSeq(ls, 1, k) \o <<l>> \o SubSeq(ls, k + 1, Len(ls))
Marked(ls, old, new) ==
    LET a == IF new /\ LastWith(ls, "+") > 0
             THEN InsertAfter(ls, LastWith(ls, "+"), NoNewlineMarker) ELSE ls
    IN  IF old /\ LastWith(a, "-") > 0
        THEN InsertAfter(a, LastWith(a, "-"), NoNewlineMarker) ELSE a

\* the lines joined by term, the last one ended or not
Joined(ls, term, ended) ==
    Concat([k \in 1..Len(ls) |-> ls[k] \o (IF k < Len(ls) \/ ended THEN term ELSE <<>>)])

BridgePatches ==
    {<<>>, MarkerOnly, Joined(FileHeader, <<NL>>, TRUE)}
    \cup { Joined((IF header THEN FileHeader ELSE <<>>) \o Marked(Concat(hs), old, new), term, ended) :
             hs \in SeqsUpTo(HunkSet, MaxHunks) \ {<<>>}, header \in BOOLEAN,
             old \in BOOLEAN, new \in BOOLEAN, term \in {<<NL>>, <<CR, NL>>},
             ended \in BOOLEAN }

BridgeInit ==
    /\ \E patch \in BridgePatches :
          bridge = [pc |-> "start", before |-> Document, arg |-> patch, patch |-> patch,
                    patches |-> <<>>, k |-> 0, textEdits |-> <<>>, result |-> NoResult,
                    message |-> <<>>]
    /\ IdleSynth
    /\ IdleParser
    /\ IdleRequest
    /\ IdleShared

\* throw new Error(message): the call ends and returns nothing
ThrowKeepsEdits(b, message) == [b EXCEPT !.pc = "done", !.result = b.textEdits]
Throw(b, message) == [b EXCEPT !.pc = "threw", !.message = message]

\* lines 458-461
BridgeStripHeader ==
    /\ bridge.pc = "start"
    /\ bridge' = [bridge EXCEPT !.patch = StripFileHeader(@), !.pc = "length"]
    /\ UNCHANGED <<synthVars, parseVars, req, files, reqs>>

\* lines 463-465
BridgeCheckLength ==
    /\ bridge.pc = "length"
    /\ bridge' = IF IsEmptyPatch(bridge.patch) THEN [bridge EXCEPT !.result = <<>>, !.pc = "done"]
                 ELSE [bridge EXCEPT !.pc = "marker"]
    /\ UNCHANGED <<synthVars, parseVars, req, files, reqs>>

\* line 468
BridgeStripMarker ==
    /\ bridge.pc = "marker"
    /\ bridge' = [bridge EXCEPT !.patch = StripMarker(@), !.pc = "parse"]
    /\ UNCHANGED <<synthVars, parseVars, req, files, reqs>>

\* lines 469-474
BridgeParse ==
    /\ bridge.pc = "parse"
    /\ LET s == ParseLoop(ParserState(SplitPatchText(bridge.patch), 1, <<>>, "header"))
       IN  bridge' =
             IF bridge.patch = <<>> THEN Throw(bridge, UnableToParse)
             ELSE IF s.pc = "threw" THEN Throw(bridge, ParseErrorMessage(s))
             ELSE IF Len(s.patches) = 0 THEN Throw(bridge, UnableToParse)
             ELSE [bridge EXCEPT !.patches = s.patches, !.k = 1, !.pc = "forEach"]
    /\ UNCHANGED <<synthVars, parseVars, req, files, reqs>>

\* lines 478-483: one patch
BridgeForEach ==
    /\ bridge.pc = "forEach"
    /\ bridge.k <= Len(bridge.patches)
    /\ LET p == bridge.patches[bridge.k]
           r == getTextEditsInternal(bridge.before, AddLineFeeds(p.diffs), p.start1)
       IN  bridge' = IF r.failed THEN Throw(bridge, InternalError)
                     ELSE [bridge EXCEPT !.textEdits = @ \o TextEditsOf(r.edits),
                                         !.k = @ + 1]
    /\ UNCHANGED <<synthVars, parseVars, req, files, reqs>>

\* line 485
BridgeReturn ==
    /\ bridge.pc = "forEach"
    /\ bridge.k > Len(bridge.patches)
    /\ bridge' = [bridge EXCEPT !.result = bridge.textEdits, !.pc = "done"]
    /\ UNCHANGED <<synthVars, parseVars, req, files, reqs>>

BridgeNext ==
    \/ BridgeStripHeader
    \/ BridgeCheckLength
    \/ BridgeStripMarker
    \/ BridgeParse
    \/ BridgeForEach
    \/ BridgeReturn

SpecBridge == BridgeInit /\ [][BridgeNext]_vars

\* ------------------------------------------------ the editor's side of an edit
\* (vscode-languageserver-protocol: a position past the end of its line counts as
\* the end of the line, a line past the last as the end of the document)

RECURSIVE LineStart(_, _)
LineStart(ls, n) == IF n <= 0 THEN 0 ELSE Len(Head(ls)) + 1 + LineStart(Tail(ls), n - 1)

OffsetAt(doc, pos) ==
    LET ls == SplitOn(doc, {NL}, <<>>)
    IN  IF pos.line >= Len(ls) THEN Len(doc)
        ELSE LineStart(ls, pos.line) + Min(pos.character, Len(ls[pos.line + 1]))

RECURSIVE ApplyTextEdits(_, _, _)
\* the text edits applied to doc, the last first, at their offsets in orig
ApplyTextEdits(doc, orig, tes) ==
    IF tes = <<>> THEN doc
    ELSE LET t == tes[Len(tes)]
             a == OffsetAt(orig, t.start)
             b == Max(a, OffsetAt(orig, t.end))
         IN  ApplyTextEdits(SubSeq(doc, 1, a) \o t.newText \o SubSeq(doc, b + 1, Len(doc)),
                            orig, SubSeq(tes, 1, Len(tes) - 1))

\* the newline-terminated lines of a document
LinesOf(doc) ==
    LET raw == SplitOn(doc, {NL}, <<>>) IN SubSeq(raw, 1, Len(raw) - 1)

OpsOf(ds) == [k \in 1..Len(ds) |-> ds[k].op]

\* the hunk's Equal and Delete primitives are the original's lines from line s on,
\* and every payload is one terminated line
HunkMatches(doc, ds, s) ==
    LET ls == LinesOf(doc)
    IN  /\ s >= 0
        /\ s + Consumed(OpsOf(ds), Len(ds) + 1) <= Len(ls)
        /\ \A k \in 1..Len(ds) :
              /\ Len(ds[k].text) >= 1
              /\ \A j \in 1..Len(ds[k].text) : (ds[k].text[j] = NL) <=> (j = Len(ds[k].text))
              /\ ds[k].op # DIFF_INSERT =>
                    ds[k].text = ls[s + Consumed(OpsOf(ds), k) + 1] \o <<NL>>

\* the document the hunk describes: the original with the hunk's region replaced
\* by the payloads of the primitives that are not Deletes
HunkResult(doc, ds, s) ==
    LET ls == LinesOf(doc)
        n == Consumed(OpsOf(ds), Len(ds) + 1)
        kept == [k \in 1..Len(ds) |-> IF ds[k].op = DIFF_DELETE THEN <<>> ELSE ds[k].text]
    IN  DocOf(SubSeq(ls, 1, s)) \o Concat(kept) \o DocOf(SubSeq(ls, s + n + 1, Len(ls)))

PosLeq(p, q) == p.line < q.line \/ (p.line = q.line /\ p.character <= q.character)

\* ---------------------------------------------------------------- claims
\* C1: for every hunk that matches the original at start1, applying the returned
\* edits to the original gives the original with the hunk's region replaced by
\* the payloads of the non-Delete primitives, and nothing else changed.
RoundTrip ==
    (spc = "done" /\ HunkMatches(before, diffs, startLine))
        => ApplyTextEdits(before, before, TextEditsOf(edits)) = HunkResult(before, diffs, startLine)

\* The round trip does hold for the hunks whose first edit is not opened on a
\* line after the first: the hunk starts at line 0 or with an Equal primitive.
RoundTripAnchored ==
    (spc = "done" /\ HunkMatches(before, diffs, startLine)
       /\ (startLine = 0 \/ diffs = <<>> \/ diffs[1].op = DIFF_EQUAL))
        => ApplyTextEdits(before, before, TextEditsOf(edits)) = HunkResult(before, diffs, startLine)

HalfMeaning(h) ==
    IF h.len = -1 THEN [start |-> h.s - 1, length |-> 1]
    ELSE IF h.len = 0 /\ h.pad = 0 THEN [start |-> h.s, length |-> 0]
    ELSE [start |-> h.s - 1, length |-> h.len]

LastPatch == patches[Len(patches)]
HeaderJustRead(l) == ppc = "content" /\ textPointer >= 2 /\ text[textPointer - 1] = l
PatchHas(s1, l1, s2, l2) ==
    /\ LastPatch.start1 = s1 /\ LastPatch.length1 = l1
    /\ LastPatch.start2 = s2 /\ LastPatch.length2 = l2

\* C4: each half of a header with written start s gives (s-1, 1) when the length
\* is omitted, (s, 0) when the length is exactly "0", and (s-1, n) for any other
\* written length n, independently of the other half; "@@ -5 +5 @@",
\* "@@ -5,0 +5 @@" and "@@ -5,3 +5,3 @@" give (4,1), (5,0) and (4,3).
HeaderLengthRule ==
    /\ \A a \in HalfSpecs, b \in PlusHalfSpecs :
          HeaderJustRead(Hdr(Written(a), Written(b))) =>
              PatchHas(HalfMeaning(a).start, HalfMeaning(a).length,
                       HalfMeaning(b).start, HalfMeaning(b).length)
    /\ HeaderJustRead(<<"@", "@", " ", "-", "5", " ", "+", "5", " ", "@", "@">>) => PatchHas(4, 1, 4, 1)
    /\ HeaderJustRead(<<"@", "@", " ", "-", "5", ",", "0", " ", "+", "5", " ", "@", "@">>) => PatchHas(5, 0, 4, 1)
    /\ HeaderJustRead(<<"@", "@", " ", "-", "5", ",", "3", " ", "+", "5", ",", "3", " ", "@", "@">>) => PatchHas(4, 3, 4, 3)

HeaderLengthRuleWitness ==
    /\ HeaderJustRead(<<"@", "@", " ", "-", "5", ",", "0", " ", "+", "5", " ", "@", "@">>)
    /\ LastPatch.start1 = 5
    /\ LastPatch.length1 = 0

\* a line of the header grammar @@ -<digits>[,][<digits>] +<digits>[,][<digits>] @@
AllDigits(l, from, to) == \A k \in from..to : l[k] \in Digits
IsHeaderLine(l) ==
    /\ Len(l) >= 11
    /\ SubSeq(l, 1, 4) = <<"@", "@", " ", "-">>
    /\ SubSeq(l, Len(l) - 2, Len(l)) = <<" ", "@", "@">>
    /\ \E sp \in 6..(Len(l) - 5) :
          /\ l[sp] = " " /\ l[sp + 1] = "+"
          /\ \E e1 \in 5..(sp - 1), e2 \in (sp + 2)..(Len(l) - 3) :
                /\ AllDigits(l, 5, e1)
                /\ AllDigits(l, sp + 2, e2)
                /\ \E c1 \in {0, 1}, c2 \in {0, 1} :
                      /\ c1 = 1 => (e1 + 1 < sp /\ l[e1 + 1] = ",")
                      /\ c2 = 1 => (e2 + 1 < Len(l) - 2 /\ l[e2 + 1] = ",")
                      /\ AllDigits(l, e1 + 1 + c1, sp - 1)
                      /\ AllDigits(l, e2 + 1 + c2, Len(l) - 3)

\* the input has a line where a header is expected that is none, or a content
\* line whose sign is none of - + space @
Malformed(ls) ==
    \/ ~IsHeaderLine(ls[1])
    \/ \E k \in 2..Len(ls) :
          /\ ls[k] # <<>>
          /\ \/ ls[k][1] = "@" /\ ~IsHeaderLine(ls[k])
             \/ ls[k][1] \notin {"-", "+", " ", "@"}

\* C5: patch_fromText throws exactly when a line at which a header is expected is
\* not one, or a non-empty content line starts with none of - + space @; it
\* rejects "not a header\n", and every other non-empty input returns.
RejectsExactlyMalformed ==
    /\ (ppc \in {"done", "threw"} /\ textline # <<>>)
          => (ppc = "threw" <=> Malformed(SplitPatchText(textline)))
    /\ (ppc \in {"done", "threw"} /\ textline = <<"n", "o", "t", " ", "a", " ", "h", "e", "a", "d", "e", "r", NL>>) => ppc = "threw"

RejectsExactlyMalformedWitness ==
    /\ ppc = "threw"
    /\ Len(patches) = 1
    /\ Len(patches[1].diffs) = 1
    /\ textPointer = 3

\* the maximal runs of non-Equal primitives, as the indices they start at, and
\* the index each ends at
RunStarts(ds) ==
    {k \in 1..Len(ds) : ds[k].op # DIFF_EQUAL /\ (k = 1 \/ ds[k - 1].op = DIFF_EQUAL)}
RunEnd(ds, a) ==
    CHOOSE b \in a..Len(ds) :
        /\ \A j \in a..b : ds[j].op # DIFF_EQUAL
        /\ b = Len(ds) \/ ds[b + 1].op = DIFF_EQUAL
\* the r-th smallest element of a set of numbers
Nth(S, r) == CHOOSE k \in S : Cardinality({j \in S : j < k}) = r - 1
\* the place in the original before primitive k: inserted text is not walked
OrigPos(doc, ds, s, k) ==
    Walk([line |-> s, character |-> InitialCharacter(doc, s)],
         Concat([j \in 1..(k - 1) |-> IF ds[j].op = DIFF_INSERT THEN <<>> ELSE ds[j].text]))
RunInserted(ds, a, b) ==
    Concat([j \in 1..(b - a + 1) |->
               IF ds[a + j - 1].op = DIFF_INSERT THEN ds[a + j - 1].text ELSE <<>>])
RunAction(ds, a, b) ==
    IF \A j \in a..b : ds[j].op = DIFF_DELETE THEN "Delete"
    ELSE IF \A j \in a..b : ds[j].op = DIFF_INSERT THEN "Insert"
    ELSE "Replace"

\* C3: one edit per maximal run of non-Equal primitives, in run order: Delete for
\* a run of Deletes, Insert for a run of Inserts, Replace for Deletes followed by
\* Inserts, with the Delete's start and end and the inserted payloads concatenated;
\* no run, no edit.
OneEditPerRun ==
    spc = "done" =>
        /\ Len(edits) = Cardinality(RunStarts(diffs))
        /\ \A r \in 1..Len(edits) :
              LET a == Nth(RunStarts(diffs), r)
                  b == RunEnd(diffs, a)
              IN  /\ edits[r].action = RunAction(diffs, a, b)
                  /\ edits[r].text = RunInserted(diffs, a, b)
                  /\ edits[r].start = OrigPos(before, diffs, startLine, a)
                  /\ edits[r].action # "Insert"
                        => edits[r].end = OrigPos(before, diffs, startLine, b + 1)

OneEditPerRunWitness ==
    /\ spc = "done"
    /\ Len(diffs) = 3
    /\ diffs[1].op = DIFF_DELETE /\ diffs[2].op = DIFF_DELETE /\ diffs[3].op = DIFF_INSERT
    /\ Len(edits) = 1
    /\ edits[1].action = "Replace"

\* an Insert primitive is processed
InsertStep == spc = "loop" /\ i <= Len(diffs) /\ diffs[i].op = DIFF_INSERT /\ i' = i + 1
\* the example of the specification
InsertExample ==
    (/\ mode = "patch"
     /\ before = <<"a", NL, "b", NL>>
     /\ diffs = <<[op |-> DIFF_EQUAL, text |-> <<"a", NL>>],
                  [op |-> DIFF_INSERT, text |-> <<"x", NL>>],
                  [op |-> DIFF_EQUAL, text |-> <<"b", NL>>]>>
     /\ spc = "loop" /\ i = 3)
        => (line = 1 /\ character = 0)

\* C6: an Insert primitive leaves the cursor where it was, whatever its text; and
\* for "a\nb\n" with [Equal(a), Insert(x), Equal(b)], Equal(b) is walked from line 1.
InsertKeepsCursor ==
    /\ [][InsertStep => (line' = line /\ character' = character)]_vars
    /\ []InsertExample

InsertKeepsCursorWitness ==
    /\ spc = "loop" /\ i = 3
    /\ diffs[1].op = DIFF_EQUAL
    /\ diffs[2].op = DIFF_INSERT
    /\ \E j \in 1..Len(diffs[2].text) : diffs[2].text[j] = NL
    /\ edit.action = "Insert"
    /\ line > 0

\* ------------------------------------------------- claims about a request
Count(sq, x) == Cardinality({k \in 1..Len(sq) : sq[k] = x})
Ended == req.pc \in {"settled", "done"}
ShownFailed == \E k \in 1..Len(req.messages) : req.messages[k].failed
ShownNotInstalled ==
    \E k \in 1..Len(req.messages) : req.messages[k].failed /\ req.messages[k].notInstalled

\* C7: once the token is found set at a check point (after the temporary file is
\* written, in the then-callback, in the catch-callback), the request resolves with
\* no edits, the output is not parsed after that, and handleError is never called.
CancellationRespected ==
    \A k \in 1..Len(req.log) :
        req.log[k] = "tokenSetAtCheck" =>
            /\ \A j \in (k + 1)..Len(req.log) : req.log[j] \notin {"parse", "handleError"}
            /\ Count(req.log, "handleError") = 0
            /\ ~ShownFailed
            /\ req.pc \in {"settled", "done"}
            /\ req.result = <<>>
            /\ req.outcome = "resolved"

CancellationWitness ==
    /\ req.pc = "done"
    /\ \E k \in 1..Len(req.log) :
          /\ req.log[k] = "parse"
          /\ k < Len(req.log)
          /\ req.log[k + 1] = "tokenSetAtCheck"

\* the run failed: the process could not be started, the module turned out not to
\* be installed, or the output was handed to getTextEditsFromPatch and that threw
\* (a malformed patch, or a Delete after an Insert in the synthesizer)
RunFailed ==
    \/ req.event = "error"
    \/ req.error.kind = "ModuleNotInstalledError"
    \/ /\ Count(req.log, "parse") > 0
       /\ getTextEditsFromPatch(Document, req.stdout).failed

NonzeroExitSurfaced ==
    (/\ req.pc = "done"
     /\ ~req.token
     /\ req.event = "close"
     /\ req.exitCode \notin {0, 127}
     /\ IndexOf(req.stderr.text, NoModuleNamed) = -1)
        => (ShownFailed /\ req.result = <<>>)

\* C10: when the executable is not found (ENOENT), or the interpreter's error
\* output names the module as missing at any place, the beginning included, the
\* request gives no edits and the "module is not installed" warning.
NotInstalledSurfaced ==
    (/\ req.pc = "done"
     /\ ~req.token
     /\ \/ req.event = "error" /\ req.error.code = "ENOENT"
        \/ /\ req.event = "close"
           /\ req.isModule
           /\ ~req.installed
           /\ IndexOf(req.stderr.text, NoModuleNamed \o <<" ">> \o ModuleName) >= 0)
        => (ShownNotInstalled /\ req.result = <<>>)

\* C11: the formatter of a request opens the temporary file that request wrote:
\* never a file the other request wrote, never a name the other request has
\* already unlinked.
ReadsOwnTempFile ==
    \A r \in Requests : reqs[r].read # NotRead => reqs[r].read = r

\* what a call has produced: the edits returned, or the failure
BridgeEnded == bridge.pc \in {"done", "threw"}
BridgeOutcome ==
    IF bridge.pc = "threw" THEN [failed |-> TRUE] ELSE [failed |-> FALSE, edits |-> bridge.result]
OutcomeOf(got) == IF got.failed THEN [failed |-> TRUE] ELSE got

RECURSIVE RemoveMarkerLines(_)
\* the text without its marker lines: each marker goes with the terminator after it
RemoveMarkerLines(t) ==
    LET n == Len(NoNewlineMarker)
        k == IndexOf(t, NoNewlineMarker)
        eat == IF OccursAt(t, <<CR, NL>>, k + n) THEN 2
               ELSE IF OccursAt(t, <<CR>>, k + n) \/ OccursAt(t, <<NL>>, k + n) THEN 1
               ELSE 0
    IN  IF k < 0 THEN t
        ELSE SubSeq(t, 1, k) \o RemoveMarkerLines(SubSeq(t, k + n + eat + 1, Len(t)))

\* C12: a call on a text with marker lines ends as the call on the text without
\* them: the same edits, and a failure only where that call fails too.
MarkersRemoved ==
    BridgeEnded =>
        BridgeOutcome = OutcomeOf(getTextEditsFromPatch(bridge.before, RemoveMarkerLines(bridge.arg)))

\* the text with every "\r\n" written as "\n"
WithNewlines(t) ==
    LET at == [k \in 1..Len(t) |-> <<t[k], k>>]
        Kept(p) == ~(p[1] = CR /\ p[2] < Len(t) /\ t[p[2] + 1] = NL)
        kept == SelectSeq(at, Kept)
    IN  [k \in 1..Len(kept) |-> kept[k][1]]

HasCR(t) == \E k \in 1..Len(t) : t[k] = CR

\* C13: a text with "\r\n" terminators whose "\n" form parses gives, once the
\* parser has ended, the patches of the "\n" form.
CrlfTolerant ==
    (ppc \in {"done", "threw"} /\ HasCR(textline))
        => LET lf == patch_fromText(WithNewlines(textline))
           IN  ~lf.failed => (ppc = "done" /\ patches = lf.patches)

CrlfTolerantWitness ==
    /\ ppc = "done"
    /\ HasCR(textline)
    /\ Len(patches) = 1
    /\ Len(patches[1].diffs) = 2
    /\ patches[1].diffs[1].op = DIFF_DELETE
    /\ patches[1].diffs[2].op = DIFF_INSERT

\* the edits of the k-th patch of the call, as getTextEditsInternal gives them
HunkEdits(k) ==
    getTextEditsInternal(bridge.before, AddLineFeeds(bridge.patches[k].diffs),
                         bridge.patches[k].start1)
HeaderCount(t) == Cardinality({k \in 0..Len(t) : OccursAt(t, <<"@", "@", " ", "-">>, k)})

\* C14: a call that fails returns nothing, whatever edits it had built; a call
\* that returns after parsing returns the edits of every hunk of the text, in order.
AllOrNone ==
    /\ bridge.pc = "threw" => bridge.result = NoResult
    /\ (bridge.pc = "done" /\ bridge.patches # <<>>)
          => /\ Len(bridge.patches) = HeaderCount(bridge.arg)
             /\ \A k \in 1..Len(bridge.patches) : ~HunkEdits(k).failed
             /\ bridge.result =
                  Concat([k \in 1..Len(bridge.patches) |-> TextEditsOf(HunkEdits(k).edits)])

AllOrNoneWitness ==
    /\ bridge.pc = "threw"
    /\ bridge.message = InternalError
    /\ Len(bridge.patches) = 2
    /\ bridge.textEdits # <<>>
    /\ bridge.result = NoResult

\* a Delete at k with an Insert before it and no Equal between the two
DeleteMeetsInsert(ds, k) ==
    /\ ds[k].op = DIFF_DELETE
    /\ \E j \in 1..(k - 1) :
          /\ ds[j].op = DIFF_INSERT
          /\ \A m \in j..k : ds[m].op # DIFF_EQUAL

\* C15: the call throws at the first Delete met while an Insert or a Replace is
\* in progress, and nowhere else: a call that returns met no such Delete.
FailFast ==
    /\ spc = "threw"
          => /\ DeleteMeetsInsert(diffs, i)
             /\ \A k \in 1..(i - 1) : ~DeleteMeetsInsert(diffs, k)
             /\ edit.action \in {"Insert", "Replace"}
    /\ spc = "done" => \A k \in 1..Len(diffs) : ~DeleteMeetsInsert(diffs, k)

FailFastWitness ==
    /\ spc = "threw"
    /\ edit.action = "Replace"
    /\ i = 3
    /\ diffs[1].op = DIFF_DELETE
    /\ diffs[2].op = DIFF_INSERT

\* every primitive carries text: a line's content with its terminator
PayloadsNonEmpty == \A k \in 1..Len(diffs) : diffs[k].text # <<>>

\* C16: of the edits returned, a Delete or a Replace has its end set, at or after
\* its start; a Delete has no text; an Insert or a Replace has text (the
\* primitives carrying text, as every primitive read from a patch does).
EditsWellFormed ==
    spc = "done" =>
        \A k \in 1..Len(edits) :
            LET e == edits[k]
            IN  /\ e.action \in {"Delete", "Insert", "Replace"}
                /\ e.action \in {"Delete", "Replace"} => (e.end # NoPos /\ PosLeq(e.start, e.end))
                /\ e.action = "Delete" => e.text = <<>>
                /\ (e.action \in {"Insert", "Replace"} /\ PayloadsNonEmpty) => e.text # <<>>

EditsWellFormedWitness ==
    /\ spc = "done"
    /\ PayloadsNonEmpty
    /\ Len(edits) = 2
    /\ edits[1].action = "Delete"
    /\ edits[1].end # edits[1].start
    /\ edits[2].action = "Insert"

\* a position of the document: a line it has, and a character within that line
InDocument(doc, p) ==
    LET ls == SplitLines(doc)
    IN  /\ p.line \in 0..(Len(ls) - 1)
        /\ p.character \in 0..Len(ls[p.line + 1])

\* C17: for a hunk that matches the original at startLine, every start and every
\* end that is set is a position of the original, and a hunk that begins with a
\* Delete or an Insert has its first edit start at (startLine, 0).
PositionsInOriginal ==
    (spc = "done" /\ HunkMatches(before, diffs, startLine))
        => /\ \A k \in 1..Len(edits) :
                 /\ InDocument(before, edits[k].start)
                 /\ edits[k].end # NoPos => InDocument(before, edits[k].end)
           /\ (diffs # <<>> /\ diffs[1].op # DIFF_EQUAL)
                 => edits[1].start = [line |-> startLine, character |-> 0]

\* C18: a request that has ended after its temporary file was written has
\* unlinked it; and from a check point that finds the token set, the unlink comes
\* before the return.
TempFileCleanedUp ==
    /\ (req.pc = "done" /\ req.tempFile # "none") => Count(req.log, "unlink") > 0
    /\ \A k \in 1..Len(req.log) :
          req.log[k] = "tokenSetAtCheck" =>
              \E j \in (k + 1)..Len(req.log) :
                  /\ req.log[j] = "unlink"
                  /\ \A m \in (k + 1)..(j - 1) : req.log[m] # "return"

\* the lines that start with "@", in order
AtLines(ls) == {k \in 1..Len(ls) : StartsWith(ls[k], <<"@">>)}
NthAtLine(ls, r) == CHOOSE k \in AtLines(ls) : Cardinality({j \in AtLines(ls) : j < k}) = r - 1
\* the line after the content of the r-th hunk: the next "@" line, or the end
HunkEnd(ls, r) == IF r = Cardinality(AtLines(ls)) THEN Len(ls) + 1 ELSE NthAtLine(ls, r + 1)

OpOfSign(c) ==
    CASE c = "-" -> DIFF_DELETE
      [] c = "+" -> DIFF_INSERT
      [] c = " " -> DIFF_EQUAL
      [] OTHER -> "none"
NonEmptyLine(l) == l # <<>>
\* one primitive per non-empty line: the sign's operation and the rest of the line
PrimitivesOf(ls) ==
    LET content == SelectSeq(ls, NonEmptyLine)
    IN  [k \in 1..Len(content) |-> [op |-> OpOfSign(content[k][1]), text |-> Tail(content[k])]]

\* C19: a parse that returns gives one patch per "@" line, in their order, each
\* with its header's values and with the primitives of the non-empty lines up to
\* the next "@" line or the end.
HunkBoundaries ==
    ppc = "done" =>
        /\ Len(patches) = Cardinality(AtLines(text))
        /\ \A r \in 1..Len(patches) :
              LET h == NthAtLine(text, r)
              IN  /\ MatchHeader(text[h]).ok
                  /\ [patches[r] EXCEPT !.diffs = <<>>] = NewPatch(MatchHeader(text[h]).m)
                  /\ patches[r].diffs = PrimitivesOf(SubSeq(text, h + 1, HunkEnd(text, r) - 1))

HunkBoundariesWitness ==
    /\ ppc = "done"
    /\ Len(patches) = 2
    /\ Len(patches[1].diffs) = 1
    /\ patches[1].start1 # patches[2].start1

ParserProgress ==
    [][/\ textPointer' >= textPointer
       /\ (ppc = "header" /\ ppc' = "content") => textPointer' = textPointer + 1
       /\ (ppc = "content" /\ ppc' = "header")
             => (StartsWith(text[textPointer], <<"@">>) /\ textPointer' = textPointer)]_vars

\* C21: on every input the parser makes progress as above and ends: it returns
\* the patches or it throws.
ParserTerminates ==
    /\ ParserProgress
    /\ <>(ppc \in {"done", "threw"})

\* the inner loop stopped on an "@" line and the outer loop refused it
ParserTerminatesWitness ==
    /\ ppc = "threw"
    /\ textPointer > 1
    /\ StartsWith(text[textPointer], <<"@">>)
    /\ Len(patches) = 1
    /\ Len(patches[1].diffs) = 1

====
